---- MODULE Spec2Model ----
(***************************************************************************)
(* Model of forex_minute/agent/heuristic/agent.py: the per-agent ordering  *)
(* policy (class Agent).                                                   *)
(*                                                                         *)
(* Numbers.  The code computes in Python floats.  Here every quantity is a *)
(* fixed-point integer counting 1/Scale units (3.5 is 3500 when Scale is   *)
(* 1000); a product is rounded down to the next 1/Scale, a square root is  *)
(* the integer square root.  The observations fed to the policy are whole  *)
(* numbers well below 2^24, on which the float32 conversion of             *)
(* _array_to_dict_obs is exact; NaN and infinities do not arise from them. *)
(***************************************************************************)
EXTENDS Integers, Sequences, FiniteSets, TLC

\* One unit of the fixed-point representation.
Scale == 1000

\* ------------------------------------------------------------------ bounds
\* Calls of choose_action in one run of a single instance.
MaxCalls == 9
\* Periods of a run of two instances fed the same calls.
MaxPairCalls == 4
\* Calls of choose_action, over all instances, in a run of several instances.
MaxMultiCalls == 4
\* reset() and step() calls made on one trading environment.
MaxEnvOps == 7

\* ------------------------------------------------------ arithmetic helpers
Max(a, b) == IF b > a THEN b ELSE a
Min(a, b) == IF b < a THEN b ELSE a

\* a * b of two fixed-point numbers.
Mul(a, b) == (a * b) \div Scale

RECURSIVE Newton(_, _)
Newton(n, x) ==
    LET y == (x + n \div x) \div 2
    IN  IF y >= x THEN x ELSE Newton(n, y)

\* The largest r with r * r <= n.
ISqrt(n) == IF n = 0 THEN 0 ELSE Newton(n, Min(n, 46340))

\* np.sqrt of a fixed-point number.
np_sqrt(x) == ISqrt(x * Scale)

RECURSIVE sum(_)
sum(xs) == IF xs = <<>> THEN 0 ELSE Head(xs) + sum(Tail(xs))

RECURSIVE SumSqDev(_, _)
SumSqDev(xs, m) ==
    IF xs = <<>> THEN 0 ELSE (Head(xs) - m) * (Head(xs) - m) + SumSqDev(Tail(xs), m)

\* np.std(xs) with its default ddof=0: sqrt(mean(abs(x - x.mean())**2)).
np_std(xs) ==
    LET n    == Len(xs)
        mean == sum(xs) \div n
    IN  ISqrt(SumSqDev(xs, mean) \div n)

\* ------------------------------------------------------------- optionals
\* Python's None and a present value.
None == <<>>
Some(v) == <<v>>
Val(o) == o[1]

\* ------------------------------------------------------------ collections
demand_history_maxlen == 8
last_orders_maxlen == 4

\* Faulty variant of deque_append: a plain list, which never evicts.
deque_append_unbounded(dq, x, m) == Append(dq, x)

\* deque(maxlen=m).append(x): a full deque drops its leftmost element.
deque_append(dq, x, m) ==
    IF Len(dq) >= m THEN Append(Tail(dq), x) ELSE Append(dq, x)

\* ---------------------------------------------------------------- Agent
obs_keys ==
    <<"inventory", "backorders", "orders", "incoming_shipments",
      "holding_cost", "backorder_cost">>

\* Agent._array_to_dict_obs: the flat array's values by name, in obs_keys order.
_array_to_dict_obs(obs_array) ==
    [key \in {obs_keys[k] : k \in 1..Len(obs_keys)} |->
        obs_array[CHOOSE k \in 1..Len(obs_keys) : obs_keys[k] = key]]

\* Faulty variant of _estimate_lead_time: the position's delay left out.
_estimate_lead_time_flat(position) == 2 * Scale

\* Agent._estimate_lead_time for an agent at `position`.
_estimate_lead_time(position) ==
    LET base_lead_time  == 2 * Scale
        position_factor == position * ((15 * Scale) \div 10)
    IN  base_lead_time + position_factor

\* Agent.__init__: the instance for the player at index `position` of
\* env.possible_agents, whose action space has upper bound `high`.
AgentInit(position, high) ==
    [ position              |-> position,
      action_space_high     |-> high,
      safety_stock_factor   |-> (15 * Scale) \div 10,
      target_inventory_days |-> 14,
      smoothing_factor      |-> (3 * Scale) \div 10,
      lead_time             |-> _estimate_lead_time(position),
      demand_history        |-> <<>>,
      last_orders           |-> <<>>,
      avg_demand            |-> None ]

\* Agent._calculate_safety_stock.
_calculate_safety_stock(self, demand_std) ==
    LET service_level_z == (196 * Scale) \div 100
    IN  Mul(Mul(service_level_z, demand_std), np_sqrt(self.lead_time))

\* Faulty variant of _estimate_demand: the two smoothing weights exchanged.
_estimate_demand_swapped(self, observation) ==
    LET current_demand == observation["orders"]
    IN  [self EXCEPT
           !.demand_history = deque_append(@, current_demand, demand_history_maxlen),
           !.avg_demand =
               IF self.avg_demand = None
               THEN Some(current_demand)
               ELSE Some(Mul(Scale - self.smoothing_factor, current_demand)
                         + Mul(self.smoothing_factor, Val(self.avg_demand)))]

\* Agent._estimate_demand: the instance after the call; the value returned
\* is its avg_demand.
_estimate_demand(self, observation) ==
    LET current_demand == observation["orders"]
    IN  [self EXCEPT
           !.demand_history = deque_append(@, current_demand, demand_history_maxlen),
           !.avg_demand =
               IF self.avg_demand = None
               THEN Some(current_demand)
               ELSE Some(Mul(self.smoothing_factor, current_demand)
                         + Mul(Scale - self.smoothing_factor, Val(self.avg_demand)))]

\* np.std(xs, ddof=1): the sample standard deviation.
np_std_ddof1(xs) ==
    LET n    == Len(xs)
        mean == sum(xs) \div n
    IN  ISqrt(SumSqDev(xs, mean) \div (n - 1))

\* Faulty variant of demand_std_of: the sample standard deviation in place of np.std's.
demand_std_sample(self) ==
    IF Len(self.demand_history) > 1
    THEN np_std_ddof1(self.demand_history)
    ELSE Mul(Val(self.avg_demand), (2 * Scale) \div 10)

\* Line 81: the variability estimate, taken after _estimate_demand has run.
demand_std_of(self) ==
    IF Len(self.demand_history) > 1
    THEN np_std(self.demand_history)
    ELSE Mul(Val(self.avg_demand), (2 * Scale) \div 10)

\* Faulty variant of clamp_order: the upper bound forgotten.
clamp_order_unbounded(order_quantity, high) == Max(order_quantity, 0)

\* Faulty variant of clamp_order: the order normalised by the bound, as for an action
\* space scaled to the bound, and then clamped.
clamp_order_normalised(order_quantity, high) ==
    IF high = 0 THEN 0
    ELSE Min(Max((order_quantity * Scale) \div high, 0), high)

\* Line 105: the order within the action space bounds.
clamp_order(order_quantity, high) == Min(Max(order_quantity, 0), high)

\* Faulty variant of inventory_position_of: the tracked orders left out.
inventory_position_on_hand(self, observation) ==
    observation["inventory"] - observation["backorders"] + observation["incoming_shipments"]

\* Lines 89-90: the net inventory position, taken before the order of the
\* current call is tracked.
inventory_position_of(self, observation) ==
    observation["inventory"] - observation["backorders"] + observation["incoming_shipments"]
    + sum(self.last_orders)

\* Faulty variant of bullwhip_smoothing: the two blending weights exchanged.
bullwhip_smoothing_swapped(self, order_quantity) ==
    IF self.last_orders # <<>>
    THEN Mul((3 * Scale) \div 10, order_quantity)
         + Mul((7 * Scale) \div 10, self.last_orders[Len(self.last_orders)])
    ELSE order_quantity

\* Lines 96-98: the base order blended with the last tracked order.
bullwhip_smoothing(self, order_quantity) ==
    IF self.last_orders # <<>>
    THEN Mul((7 * Scale) \div 10, order_quantity)
         + Mul((3 * Scale) \div 10, self.last_orders[Len(self.last_orders)])
    ELSE order_quantity

\* Faulty variant of position_adjustment: orders reduced upstream, not increased.
position_adjustment_reduced(self, order_quantity) ==
    IF self.position > 0
    THEN Mul(order_quantity, Scale - self.position * (Scale \div 10))
    ELSE order_quantity

\* Lines 101-102: orders slightly increased upstream.
position_adjustment(self, order_quantity) ==
    IF self.position > 0
    THEN Mul(order_quantity, Scale + self.position * (Scale \div 10))
    ELSE order_quantity

\* Agent._calculate_order_quantity: the instance after the call (self), the
\* value returned (order_quantity) and the locals on the way to it.
_calculate_order_quantity(self, observation) ==
    LET self1              == _estimate_demand(self, observation)
        expected_demand    == Val(self1.avg_demand)
        demand_std         == demand_std_of(self1)
        safety_stock       == _calculate_safety_stock(self1, demand_std)
        pipeline_stock     == Mul(expected_demand, self1.lead_time)
        target_stock       == safety_stock + pipeline_stock
        inventory_position == inventory_position_of(self1, observation)
        base               == Max(0, expected_demand + (target_stock - inventory_position))
        smoothed           == bullwhip_smoothing(self1, base)
        adjusted           == position_adjustment(self1, smoothed)
    IN  [ self               |-> self1,
          order_quantity     |-> clamp_order(adjusted, self1.action_space_high),
          expected_demand    |-> expected_demand,
          demand_std         |-> demand_std,
          safety_stock       |-> safety_stock,
          target_stock       |-> target_stock,
          inventory_position |-> inventory_position,
          base               |-> base,
          smoothed           |-> smoothed,
          adjusted           |-> adjusted ]

\* Faulty variant of choose_action_active: the unclamped quantity is tracked.
choose_action_active_tracks_raw(self, observation) ==
    LET obs_dict == _array_to_dict_obs(observation)
        r        == _calculate_order_quantity(self, obs_dict)
    IN  [ self           |-> [r.self EXCEPT
                                !.last_orders =
                                   deque_append(@, r.adjusted, last_orders_maxlen)],
          order_quantity |-> r.order_quantity,
          locals         |-> Some(r) ]

\* Faulty variant of choose_action_active: an order of 0 is not tracked.
choose_action_active_skips_zero(self, observation) ==
    LET obs_dict == _array_to_dict_obs(observation)
        r        == _calculate_order_quantity(self, obs_dict)
    IN  [ self           |-> IF r.order_quantity = 0 THEN r.self
                             ELSE [r.self EXCEPT
                                     !.last_orders =
                                        deque_append(@, r.order_quantity, last_orders_maxlen)],
          order_quantity |-> r.order_quantity,
          locals         |-> Some(r) ]

\* The non-terminal path of choose_action, lines 126-135.
choose_action_active(self, observation) ==
    LET obs_dict == _array_to_dict_obs(observation)
        r        == _calculate_order_quantity(self, obs_dict)
    IN  [ self           |-> [r.self EXCEPT
                                !.last_orders =
                                   deque_append(@, r.order_quantity, last_orders_maxlen)],
          order_quantity |-> r.order_quantity,
          locals         |-> Some(r) ]

\* Faulty variant of choose_action: only `terminated` ends the episode.
choose_action_ignores_truncated(self, observation, terminated, truncated) ==
    IF terminated
    THEN [ self |-> self, order_quantity |-> 0, locals |-> None ]
    ELSE choose_action_active(self, observation)

\* Faulty variant of choose_action: the 0.0 of a terminal call is tracked as an order.
choose_action_records_zero(self, observation, terminated, truncated) ==
    IF terminated \/ truncated
    THEN [ self |-> [self EXCEPT !.last_orders = deque_append(@, 0, last_orders_maxlen)],
           order_quantity |-> 0, locals |-> None ]
    ELSE choose_action_active(self, observation)

\* Faulty variant of choose_action: a terminal call starts the next episode afresh.
choose_action_resets(self, observation, terminated, truncated) ==
    IF terminated \/ truncated
    THEN [ self |-> [self EXCEPT !.demand_history = <<>>, !.last_orders = <<>>,
                                 !.avg_demand = None],
           order_quantity |-> 0, locals |-> None ]
    ELSE choose_action_active(self, observation)

\* Agent.choose_action: the instance after the call, the value returned,
\* and the locals of _calculate_order_quantity when it ran.  The reward,
\* info and action_mask arguments are never read.
choose_action(self, observation, terminated, truncated) ==
    IF terminated \/ truncated
    THEN [ self |-> self, order_quantity |-> 0, locals |-> None ]
    ELSE choose_action_active(self, observation)

\* ----------------------------------------------------------------- inputs
\* Observation arrays (inventory, backorders, orders, incoming_shipments,
\* holding_cost, backorder_cost), in whole units.
ObsUnits ==
    { <<10, 0, 5, 0, 1, 2>>,
      <<0, 3, 20, 0, 1, 2>> }

ObsArrays == { [k \in 1..6 |-> o[k] * Scale] : o \in ObsUnits }

\* A wider set of observation arrays, for the shorter runs.
WideObsArrays == ObsArrays \cup { [k \in 1..6 |-> <<60, 0, 0, 4, 1, 2>>[k] * Scale] }

\* (position, action_space.high[0] in whole units) of the instances built.
Configs == { <<0, 100>>, <<3, 10>>, <<2, 40>>, <<1, 0>> }

\* ------------------------------------------------------ ForexMinuteEnv
\* src/forex_minute/env/forex_minute.py. Prices are integers in 1/Scale
\* units (0.0 is 0); the object is a record holding the attributes set so far.
default_initial_t == 120

\* Python's closes[k] on a list: defined for -len <= k < len (IndexError
\* otherwise), a negative k counting from the end.
list_has(closes, k) == -Len(closes) <= k /\ k < Len(closes)
list_get(closes, k) == IF k >= 0 THEN closes[k + 1] ELSE closes[Len(closes) + k + 1]

hasattr(self, name) == name \in DOMAIN self

\* ForexMinuteEnv(data) with data non-empty and no initial_info; closes is
\* the list of the close prices of data.
ForexMinuteEnv(closes) ==
    LET tmax == Len(closes)
        initial_t == Min(default_initial_t, tmax - 1)
    IN  [ closes |-> closes,
          tmax |-> tmax,
          initial_t |-> initial_t,
          initial_info |-> [ initial_t |-> initial_t,
                             position_type |-> 1,
                             position_value |-> 0 ] ]

\* reset(): sets t, position_type and position_value, then reads closes[t].
\* `reads` are the indices at which closes was indexed, `raised` whether the
\* call ended in an exception, `returned` what it returned otherwise.
reset(self) ==
    LET self1 == [a \in DOMAIN self \cup {"t", "position_type", "position_value"} |->
                    CASE a = "t" -> self.initial_info.initial_t
                      [] a = "position_type" -> self.initial_info.position_type
                      [] a = "position_value" -> self.initial_info.position_value
                      [] OTHER -> self[a]]
    IN  IF list_has(self1.closes, self1.t)
        THEN [ self |-> self1, reads |-> {self1.t}, raised |-> FALSE,
               returned |-> Some([ observation |-> << self1.position_type,
                                                      self1.position_value,
                                                      list_get(self1.closes, self1.t) >> ]) ]
        ELSE [ self |-> self1, reads |-> {self1.t}, raised |-> TRUE, returned |-> None ]

\* Faulty variant of hold_position: an action equal to an open position marks
\* the position to the current price.
hold_position_remarks(self) ==
    IF self.position_type # 1 /\ list_has(self.closes, self.t)
    THEN [ self |-> [self EXCEPT !.position_value = list_get(self.closes, self.t)],
           reward |-> Some(0), priced |-> FALSE, raised |-> FALSE, reads |-> {self.t} ]
    ELSE [ self |-> self, reward |-> Some(0), priced |-> FALSE, raised |-> FALSE,
           reads |-> {} ]

\* _calculate_reward when no inner branch is taken: reward stays 0.0.
hold_position(self) ==
    [ self |-> self, reward |-> Some(0), priced |-> FALSE, raised |-> FALSE, reads |-> {} ]

\* The branches "from hold to sell" and "from hold to buy": position_type is
\* assigned before closes[self.t] is read.
open_position(self, position_type) ==
    IF list_has(self.closes, self.t)
    THEN [ self |-> [self EXCEPT !.position_type = position_type,
                                 !.position_value = list_get(self.closes, self.t)],
           reward |-> Some(0), priced |-> FALSE, raised |-> FALSE, reads |-> {self.t} ]
    ELSE [ self |-> [self EXCEPT !.position_type = position_type],
           reward |-> None, priced |-> FALSE, raised |-> TRUE, reads |-> {self.t} ]

\* The branches "from buy to sell" and "from sell to buy": the reward is
\* computed from closes[self.t] first, then the position is replaced.
reverse_position(self, position_type) ==
    IF list_has(self.closes, self.t)
    THEN LET price == list_get(self.closes, self.t)
         IN  [ self |-> [self EXCEPT !.position_type = position_type,
                                     !.position_value = price],
               reward |-> Some(IF self.position_type = 2
                               THEN price - self.position_value
                               ELSE self.position_value - price),
               priced |-> TRUE, raised |-> FALSE, reads |-> {self.t} ]
    ELSE [ self |-> self, reward |-> None, priced |-> FALSE, raised |-> TRUE,
           reads |-> {self.t} ]

\* The branches "close sell" and "close buy".
close_position(self) ==
    IF list_has(self.closes, self.t)
    THEN LET price == list_get(self.closes, self.t)
         IN  [ self |-> [self EXCEPT !.position_type = 1, !.position_value = 0],
               reward |-> Some(IF self.position_type = 2
                               THEN price - self.position_value
                               ELSE self.position_value - price),
               priced |-> TRUE, raised |-> FALSE, reads |-> {self.t} ]
    ELSE [ self |-> self, reward |-> None, priced |-> FALSE, raised |-> TRUE,
           reads |-> {self.t} ]

\* _calculate_reward(action): `reward` is the value returned (None when the
\* method raised), `priced` whether it was assigned from prices. Only the
\* branches of action 0, 1 and 2 read self.position_type (AttributeError
\* before reset()); any other action returns 0.0 and touches nothing.
_calculate_reward(self, action) ==
    IF action \in {0, 1, 2} /\ ~hasattr(self, "position_type")
    THEN [ self |-> self, reward |-> None, priced |-> FALSE, raised |-> TRUE, reads |-> {} ]
    ELSE CASE action = 0 /\ self.position_type = 1 -> open_position(self, 0)
           [] action = 0 /\ self.position_type = 2 -> reverse_position(self, 0)
           [] action = 1 /\ self.position_type = 0 -> close_position(self)
           [] action = 1 /\ self.position_type = 2 -> close_position(self)
           [] action = 2 /\ self.position_type = 1 -> open_position(self, 2)
           [] action = 2 /\ self.position_type = 0 -> reverse_position(self, 2)
           [] OTHER -> hold_position(self)

\* step(action) with render_mode None: the reward, then t += 1 (AttributeError
\* before reset()) and done, then the observation, which reads closes[self.t].
step(self, action) ==
    LET r == _calculate_reward(self, action)
    IN  IF r.raised
        THEN [ self |-> r.self, reward |-> r.reward, priced |-> r.priced,
               reads |-> r.reads, raised |-> TRUE, returned |-> None ]
        ELSE IF ~hasattr(r.self, "t")
        THEN [ self |-> r.self, reward |-> r.reward, priced |-> r.priced,
               reads |-> r.reads, raised |-> TRUE, returned |-> None ]
        ELSE LET self1 == [r.self EXCEPT !.t = @ + 1]
                 done == self1.t >= self1.tmax - 1
             IN  IF list_has(self1.closes, self1.t)
                 THEN [ self |-> self1, reward |-> r.reward, priced |-> r.priced,
                        reads |-> r.reads \cup {self1.t}, raised |-> FALSE,
                        returned |-> Some([ observation |-> << self1.position_type,
                                                               self1.position_value,
                                                               list_get(self1.closes, self1.t) >>,
                                            reward |-> Val(r.reward),
                                            done |-> done,
                                            truncated |-> FALSE ]) ]
                 ELSE [ self |-> self1, reward |-> r.reward, priced |-> r.priced,
                        reads |-> r.reads \cup {self1.t}, raised |-> TRUE,
                        returned |-> None ]

\* The price series of the environments built: lengths on both sides of
\* default_initial_t + 1, prices moving around 1.0 by a few hundredths.
SeriesLengths == {1, 3, 121, 122, 124, 126}
SeriesOf(n) == [k \in 1..n |-> Scale + ((((k - 1) * 37) % 11) - 5) * (Scale \div 100)]
Series == { SeriesOf(n) : n \in SeriesLengths }

\* ----------------------------------------------------------------- state
VARIABLES
    agents,      \* instance id -> the Agent object's fields
    ret,         \* instance id -> the value its last choose_action returned
    locals,      \* instance id -> the locals of its last order computation
    last_call,   \* the arguments of the last choose_action call
    ncalls,      \* choose_action calls made so far
    calls_log,   \* instance id -> the observations of its non-terminal calls
    issued,      \* instance id -> the values its non-terminal calls returned
    terminal_seen, \* instance id -> whether a call with a terminal flag was made
    env,         \* the ForexMinuteEnv object's attributes (None: no environment)
    env_call,    \* the last reset() or step() call and its outcome
    env_run      \* calls made, calls that raised, whether done was reported since
                 \* reset(), the step on which the position held was opened

agent_vars == <<agents, ret, locals, last_call, ncalls, calls_log, issued, terminal_seen>>
env_vars == <<env, env_call, env_run>>
vars == <<agents, ret, locals, last_call, ncalls, calls_log, issued, terminal_seen,
          env, env_call, env_run>>

Ids == DOMAIN agents

\* The state after construction of the instances `ags` (id -> Agent).
Fresh(ags) ==
    /\ agents = ags
    /\ ret = [i \in DOMAIN ags |-> None]
    /\ locals = [i \in DOMAIN ags |-> None]
    /\ last_call = None
    /\ ncalls = 0
    /\ calls_log = [i \in DOMAIN ags |-> <<>>]
    /\ issued = [i \in DOMAIN ags |-> <<>>]
    /\ terminal_seen = [i \in DOMAIN ags |-> FALSE]
    /\ env = None
    /\ env_call = None
    /\ env_run = None

\* Faulty variant of Drive: demand_history is one deque shared by all instances (a
\* class attribute), so a call's demand lands in every instance's history.
Drive_shared_history(I, observation, terminated, truncated) ==
    LET out == [i \in I |-> choose_action(agents[i], observation, terminated, truncated)]
        terminal == terminated \/ truncated
    IN  /\ agents' = [i \in DOMAIN agents |->
                        IF i \in I THEN out[i].self
                        ELSE IF terminal THEN agents[i]
                        ELSE [agents[i] EXCEPT !.demand_history =
                                deque_append(@, observation[3], demand_history_maxlen)]]
        /\ ret' = [i \in DOMAIN agents |->
                     IF i \in I THEN Some(out[i].order_quantity) ELSE ret[i]]
        /\ locals' = [i \in DOMAIN agents |->
                        IF i \in I /\ ~terminal THEN out[i].locals ELSE locals[i]]
        /\ last_call' = Some([ ids |-> I, observation |-> observation,
                               terminated |-> terminated, truncated |-> truncated ])
        /\ ncalls' = ncalls + 1
        /\ calls_log' = [i \in DOMAIN agents |->
                           IF i \in I /\ ~terminal
                           THEN Append(calls_log[i], observation) ELSE calls_log[i]]
        /\ issued' = [i \in DOMAIN agents |->
                        IF i \in I /\ ~terminal
                        THEN Append(issued[i], out[i].order_quantity) ELSE issued[i]]
        /\ terminal_seen' = [i \in DOMAIN agents |->
                               terminal_seen[i] \/ (i \in I /\ terminal)]
        /\ UNCHANGED env_vars

\* One choose_action(observation, terminated=..., truncated=...) call on
\* each instance of I, the other instances not being called.
Drive(I, observation, terminated, truncated) ==
    LET out == [i \in I |-> choose_action(agents[i], observation, terminated, truncated)]
        terminal == terminated \/ truncated
    IN  /\ agents' = [i \in Ids |-> IF i \in I THEN out[i].self ELSE agents[i]]
        /\ ret' = [i \in Ids |-> IF i \in I THEN Some(out[i].order_quantity) ELSE ret[i]]
        /\ locals' = [i \in Ids |-> IF i \in I /\ ~terminal THEN out[i].locals ELSE locals[i]]
        /\ last_call' = Some([ ids |-> I, observation |-> observation,
                               terminated |-> terminated, truncated |-> truncated ])
        /\ ncalls' = ncalls + 1
        /\ calls_log' = [i \in Ids |-> IF i \in I /\ ~terminal
                                       THEN Append(calls_log[i], observation)
                                       ELSE calls_log[i]]
        /\ issued' = [i \in Ids |-> IF i \in I /\ ~terminal
                                    THEN Append(issued[i], out[i].order_quantity)
                                    ELSE issued[i]]
        /\ terminal_seen' = [i \in Ids |-> terminal_seen[i] \/ (i \in I /\ terminal)]
        /\ UNCHANGED env_vars

\* ------------------------------------------------- one instance, long run
Init ==
    \E c \in Configs : Fresh([i \in {1} |-> AgentInit(c[1], c[2] * Scale)])

Decide(i) ==
    /\ ncalls < MaxCalls
    /\ \E observation \in ObsArrays :
          Drive({i}, observation, FALSE, FALSE)

DecideTerminal(i) ==
    /\ ncalls < MaxCalls
    /\ \E observation \in ObsArrays, terminated, truncated \in BOOLEAN :
          /\ terminated \/ truncated
          /\ Drive({i}, observation, terminated, truncated)

Next ==
    \/ \E i \in Ids : Decide(i)
    \/ \E i \in Ids : DecideTerminal(i)

Spec == Init /\ [][Next]_vars

\* ------------------------- two instances, one position, the same calls
PairPositions == {0, 2}

InitPair ==
    \E p \in PairPositions : \E c1, c2 \in { c[2] * Scale : c \in Configs } :
        /\ c1 <= c2
        /\ Fresh([i \in {1, 2} |-> AgentInit(p, IF i = 1 THEN c1 ELSE c2)])

\* One period: the same call is made on both instances.
DecideBoth ==
    /\ ncalls < MaxPairCalls
    /\ \E observation \in WideObsArrays, terminated, truncated \in BOOLEAN :
          Drive(Ids, observation, terminated, truncated)

NextPair == DecideBoth

SpecPair == InitPair /\ [][NextPair]_vars

\* ------------------- several instances at different positions, interleaved
\* The (position, bound in whole units) of instance 1 and of instance 2.
MultiConfigs == { << <<0, 100>>, <<1, 40>> >>, << <<3, 10>>, <<2, 40>> >> }

InitMulti ==
    \E m \in MultiConfigs :
        Fresh([i \in {1, 2} |-> AgentInit(m[i][1], m[i][2] * Scale)])

Turn(i) ==
    /\ ncalls < MaxMultiCalls
    /\ \E observation \in ObsArrays :
          Drive({i}, observation, FALSE, FALSE)

TurnTerminal(i) ==
    /\ ncalls < MaxMultiCalls
    /\ \E observation \in ObsArrays, terminated, truncated \in BOOLEAN :
          /\ terminated \/ truncated
          /\ Drive({i}, observation, terminated, truncated)

NextMulti ==
    \/ \E i \in Ids : Turn(i)
    \/ \E i \in Ids : TurnTerminal(i)

SpecMulti == InitMulti /\ [][NextMulti]_vars

\* ------------------------------------------- one trading environment
NoAgents ==
    /\ agents = <<>>
    /\ ret = <<>>
    /\ locals = <<>>
    /\ last_call = None
    /\ ncalls = 0
    /\ calls_log = <<>>
    /\ issued = <<>>
    /\ terminal_seen = <<>>

InitEnv ==
    /\ NoAgents
    /\ \E closes \in Series : env = ForexMinuteEnv(closes)
    /\ env_call = [ op |-> "init" ]
    /\ env_run = [ nops |-> 0, raises |-> 0, done_reported |-> FALSE, opened_at |-> None ]

\* The step on which the position held after a call was opened.
opened_after(before, after, opened_at) ==
    IF ~hasattr(after, "position_type") THEN None
    ELSE IF after.position_type = 1 THEN None
    ELSE IF hasattr(before, "position_type") /\ after.position_type = before.position_type
    THEN opened_at
    ELSE Some(before.t)

Reset ==
    /\ env_run.nops < MaxEnvOps
    /\ LET out == reset(env)
       IN  /\ env' = out.self
           /\ env_call' = [ op |-> "reset", before |-> env, reads |-> out.reads,
                            raised |-> out.raised, returned |-> out.returned,
                            done_before |-> env_run.done_reported ]
           /\ env_run' = [ nops |-> env_run.nops + 1,
                           raises |-> env_run.raises + (IF out.raised THEN 1 ELSE 0),
                           done_reported |-> FALSE,
                           opened_at |-> opened_after(env, out.self, None) ]
    /\ UNCHANGED agent_vars

Step(action) ==
    /\ env_run.nops < MaxEnvOps
    /\ LET out == step(env, action)
       IN  /\ env' = out.self
           /\ env_call' = [ op |-> "step", action |-> action, before |-> env,
                            reads |-> out.reads, raised |-> out.raised,
                            reward |-> out.reward, priced |-> out.priced,
                            returned |-> out.returned,
                            done_before |-> env_run.done_reported ]
           /\ env_run' = [ nops |-> env_run.nops + 1,
                           raises |-> env_run.raises + (IF out.raised THEN 1 ELSE 0),
                           done_reported |-> \/ env_run.done_reported
                                             \/ (out.returned # None /\ Val(out.returned).done),
                           opened_at |-> opened_after(env, out.self, env_run.opened_at) ]
    /\ UNCHANGED agent_vars

NextEnv ==
    \/ Reset
    \/ \E action \in {0, 1, 2} : Step(action)

SpecEnv == InitEnv /\ [][NextEnv]_vars

\* ------------------------------------------------------ claim vocabulary
\* The call that led to the current state, and what it was.
Called(i) == last_call # None /\ i \in Val(last_call).ids
LastTerminal == last_call # None /\ (Val(last_call).terminated \/ Val(last_call).truncated)
LastActive == last_call # None /\ ~Val(last_call).terminated /\ ~Val(last_call).truncated

\* An instance's three mutable fields.
Memory(a) == <<a.demand_history, a.last_orders, a.avg_demand>>

\* The demand signal of an observation array: its "orders" entry.
DemandOf(observation) == observation[3]

\* The last n elements of a sequence, in order.
LastN(xs, n) ==
    IF Len(xs) <= n THEN xs ELSE [k \in 1..n |-> xs[Len(xs) - n + k]]

\* The demands an instance observed in its non-terminal calls, oldest first.
Observed(i) == [k \in 1..Len(calls_log[i]) |-> DemandOf(calls_log[i][k])]

\* --------------------------------------------------------------- claims
\* C1: every value choose_action returns, on a terminal call or not, lies in
\* [0, action_space.high[0]].
C1_OrderWithinBounds ==
    \A i \in Ids :
        ret[i] # None =>
            /\ 0 <= Val(ret[i])
            /\ Val(ret[i]) <= agents[i].action_space_high

\* C1 witness: a non-terminal call whose unclamped quantity exceeded the bound
\* returned the bound itself.
C1_Witness ==
    \E i \in Ids :
        /\ LastActive /\ Called(i)
        /\ Val(locals[i]).adjusted > agents[i].action_space_high
        /\ agents[i].action_space_high > 0
        /\ ret[i] = Some(agents[i].action_space_high)

\* C2: a call with terminated or truncated set returns exactly 0 and leaves
\* demand_history, last_orders and avg_demand of the instance as they were.
C2_TerminalCallIsNoOp ==
    [][ \A i \in Ids :
          (ncalls' # ncalls /\ i \in Val(last_call').ids
           /\ (Val(last_call').terminated \/ Val(last_call').truncated))
          => /\ ret'[i] = Some(0)
             /\ Memory(agents'[i]) = Memory(agents[i]) ]_vars

\* C2 witness: a terminal call was the very first call on a fresh instance and
\* the three fields are still empty, empty and None.
C2_Witness ==
    \E i \in Ids :
        /\ LastTerminal /\ Called(i) /\ ncalls = 1
        /\ ret[i] = Some(0)
        /\ Memory(agents[i]) = <<(<<>>), (<<>>), None>>

\* C3 as claimed: once an instance has had a terminal call, every later call
\* on it returns 0 and leaves its three fields unchanged.
C3_TerminatedAbsorbing ==
    [][ \A i \in Ids :
          (ncalls' # ncalls /\ i \in Val(last_call').ids /\ terminal_seen[i])
          => /\ ret'[i] = Some(0)
             /\ Memory(agents'[i]) = Memory(agents[i]) ]_vars

\* C3 amended: the instance keeps no TERMINATED state.  After a terminal
\* call, a further terminal call returns 0 and changes nothing, and a call
\* with both flags false is handled as any ACTIVE call: it appends the
\* observed demand to demand_history and the value it returns to last_orders.
C3_TerminalNotLatched ==
    [][ \A i \in Ids :
          (ncalls' # ncalls /\ i \in Val(last_call').ids /\ terminal_seen[i])
          => LET c == Val(last_call')
             IN  IF c.terminated \/ c.truncated
                 THEN /\ ret'[i] = Some(0)
                      /\ Memory(agents'[i]) = Memory(agents[i])
                 ELSE /\ agents'[i].demand_history =
                            LastN(Append(agents[i].demand_history, DemandOf(c.observation)),
                                  demand_history_maxlen)
                      /\ agents'[i].last_orders =
                            LastN(Append(agents[i].last_orders, Val(ret'[i])),
                                  last_orders_maxlen)
                      /\ agents'[i].avg_demand # None ]_vars

\* C3 witness: a non-terminal call after a terminal one returned a positive
\* quantity and recorded it.
C3_Witness ==
    \E i \in Ids :
        /\ terminal_seen[i] /\ LastActive /\ Called(i)
        /\ Val(ret[i]) > 0
        /\ agents[i].last_orders # <<>>
        /\ agents[i].last_orders[Len(agents[i].last_orders)] = Val(ret[i])

\* C4: demand_history holds at most 8 values and last_orders at most 4; they
\* are exactly the last 8 demands observed and the last 4 orders issued by the
\* non-terminal calls, in arrival order.
C4_BoundedBuffers ==
    \A i \in Ids :
        /\ Len(agents[i].demand_history) <= 8
        /\ Len(agents[i].last_orders) <= 4
        /\ agents[i].demand_history = LastN(Observed(i), 8)
        /\ agents[i].last_orders = LastN(issued[i], 4)

\* C4 witness: more than 8 demands were observed, both buffers are full and
\* the oldest demand and the oldest order are gone.
C4_Witness ==
    \E i \in Ids :
        /\ Len(calls_log[i]) > 8
        /\ Len(agents[i].demand_history) = 8
        /\ Len(agents[i].last_orders) = 4
        /\ agents[i].demand_history[1] # Observed(i)[1]
        /\ agents[i].last_orders[1] # issued[i][1]

\* C5 as claimed: avg_demand is set once the first call has returned.
C5_DefinedAfterFirstCall ==
    \A i \in Ids : ret[i] # None => agents[i].avg_demand # None

\* C5 amended: avg_demand is set once the first NON-TERMINAL call has
\* returned, and stays set in every later state; terminal calls before it
\* leave it None.
C5_DefinedAfterFirstActiveCall ==
    \A i \in Ids :
        /\ calls_log[i] # <<>> => agents[i].avg_demand # None
        /\ calls_log[i] = <<>> => agents[i].avg_demand = None

\* C5 witness: avg_demand is still set after a terminal call that followed
\* a non-terminal one.
C5_Witness ==
    \E i \in Ids :
        /\ calls_log[i] # <<>> /\ LastTerminal /\ Called(i)
        /\ agents[i].avg_demand # None

\* C6: a non-terminal call with demand d sets avg_demand to d when it was
\* None and to 0.3 * d + 0.7 * avg_demand otherwise; nothing else changes it.
C6_ExponentialSmoothing ==
    [][ \A i \in Ids :
          IF ncalls' # ncalls /\ i \in Val(last_call').ids
             /\ ~Val(last_call').terminated /\ ~Val(last_call').truncated
          THEN LET d == DemandOf(Val(last_call').observation)
               IN  agents'[i].avg_demand =
                      IF agents[i].avg_demand = None
                      THEN Some(d)
                      ELSE Some((((3 * Scale) \div 10) * d) \div Scale
                                + ((Scale - (3 * Scale) \div 10) * Val(agents[i].avg_demand))
                                    \div Scale)
          ELSE agents'[i].avg_demand = agents[i].avg_demand ]_vars

\* C6 witness: a second sample was blended into an estimate that differs
\* from it, so avg_demand lies strictly between the two.
C6_Witness ==
    \E i \in Ids :
        /\ LastActive /\ Called(i) /\ Len(calls_log[i]) = 2
        /\ DemandOf(calls_log[i][1]) < DemandOf(calls_log[i][2])
        /\ Val(agents[i].avg_demand) > DemandOf(calls_log[i][1])
        /\ Val(agents[i].avg_demand) < DemandOf(calls_log[i][2])

\* The bounds compared in C7, and the order one call returns under each.
Ceilings == { c[2] * Scale : c \in Configs }
OrderUnder(self, high, observation, terminated, truncated) ==
    choose_action([self EXCEPT !.action_space_high = high],
                  observation, terminated, truncated).order_quantity

\* C7: for one position, one internal state and one observation with its
\* flags, the quantity a call returns under a larger bound is never below
\* the one it returns under a smaller bound.
NonDecreasing(q) == \A c1, c2 \in DOMAIN q : c1 <= c2 => q[c1] <= q[c2]

C7_MonotoneCeilingOneCall ==
    \A i \in Ids : \A observation \in ObsArrays : \A terminated, truncated \in BOOLEAN :
        NonDecreasing([c \in Ceilings |->
                         OrderUnder(agents[i], c, observation, terminated, truncated)])

\* C7 witness: in a state with history, a call returns strictly more under
\* the larger of two bounds.
C7_Witness ==
    \E i \in Ids : \E observation \in ObsArrays : \E c1, c2 \in Ceilings :
        /\ agents[i].last_orders # <<>>
        /\ 0 < c1 /\ c1 < c2
        /\ OrderUnder(agents[i], c1, observation, FALSE, FALSE)
             < OrderUnder(agents[i], c2, observation, FALSE, FALSE)

\* Sum of the squared deviations of an instance's demand_history from its mean.
HistorySSD(a) ==
    SumSqDev(a.demand_history, sum(a.demand_history) \div Len(a.demand_history))

\* C10 as claimed: with n >= 2 demands, demand_std is the SAMPLE standard
\* deviation: demand_std^2 * (n - 1) is the sum of squared deviations, to
\* the rounding of the square root.
C10_SampleStd ==
    \A i \in Ids :
        (locals[i] # None /\ Len(agents[i].demand_history) >= 2) =>
            LET n == Len(agents[i].demand_history)
                sd == Val(locals[i]).demand_std
            IN  /\ sd * sd * (n - 1) <= HistorySSD(agents[i])
                /\ HistorySSD(agents[i]) < (sd + 1) * (sd + 1) * (n - 1)

\* C10 amended: with n >= 2 demands, demand_std is the POPULATION standard
\* deviation (np.std, ddof = 0): demand_std^2 * n is the sum of squared
\* deviations, to the rounding of the square root; with fewer than 2 it is
\* 0.2 * avg_demand.
C10_PopulationStd ==
    \A i \in Ids :
        locals[i] # None =>
            LET n == Len(agents[i].demand_history)
                sd == Val(locals[i]).demand_std
            IN  IF n >= 2
                THEN /\ sd * sd * n <= HistorySSD(agents[i])
                     /\ HistorySSD(agents[i]) < (sd + 1) * (sd + 1) * n
                ELSE sd = (Val(agents[i].avg_demand) * ((2 * Scale) \div 10)) \div Scale

\* C10 witness: a history of at least 2 unequal demands gave a positive
\* demand_std.
C10_Witness ==
    \E i \in Ids :
        /\ locals[i] # None
        /\ Len(agents[i].demand_history) >= 2
        /\ Val(locals[i]).demand_std > 0

\* The last element of a non-empty sequence, and the sequence without it.
Last(xs) == xs[Len(xs)]
Front(xs) == SubSeq(xs, 1, Len(xs) - 1)

\* C8 as claimed (SpecPair: instance 1 has the smaller bound, instance 2 the
\* larger, both get the same calls): at every period the quantity returned
\* under the larger bound is at least the one returned under the smaller.
C8_MonotoneCeilingWholeRun ==
    (ret[1] # None /\ ret[2] # None) => Val(ret[1]) <= Val(ret[2])

\* C8 amended: the quantity under the larger bound is at least the one under
\* the smaller at every period up to and including the first period at which
\* the two instances return different quantities, that is, as long as all
\* their earlier returned quantities were equal.  After that the instance
\* with the larger bound may return less: its larger past orders are added
\* to its inventory position.
C8_MonotoneUntilDiverged ==
    (issued[1] # <<>> /\ Front(issued[1]) = Front(issued[2]))
        => Last(issued[1]) <= Last(issued[2])

\* C8 witness: after at least one period of equal returns, the smaller bound
\* cut the order of instance 1 below that of instance 2.
C8_Witness ==
    /\ Len(issued[1]) >= 2
    /\ Front(issued[1]) = Front(issued[2])
    /\ Last(issued[1]) < Last(issued[2])
    /\ Last(issued[1]) = agents[1].action_space_high

\* An instance run alone: a fresh instance of the same position and bound
\* given the observations of `log` in non-terminal calls, and what they return.
RECURSIVE RunAlone(_, _)
RunAlone(self, log) ==
    IF log = <<>>
    THEN [ self |-> self, returned |-> <<>> ]
    ELSE LET before == RunAlone(self, Front(log))
             out    == choose_action(before.self, Last(log), FALSE, FALSE)
         IN  [ self     |-> out.self,
               returned |-> Append(before.returned, out.order_quantity) ]

AsRunAlone ==
    \A i \in Ids :
        LET alone == RunAlone(AgentInit(agents[i].position, agents[i].action_space_high),
                              calls_log[i])
        IN  /\ agents[i] = alone.self
            /\ issued[i] = alone.returned

OthersUntouched ==
    \A i \in Ids : i \notin Val(last_call').ids => agents'[i] = agents[i]

\* C9 (SpecMulti: instances at different positions, their calls interleaved
\* in every order): a call on one instance leaves every other instance's
\* fields unchanged, and each instance holds the state and has returned the
\* quantities of a run alone on its own observations.
C9_InstancesIndependent == []AsRunAlone /\ [][OthersUntouched]_vars

\* C9 witness: both instances have been called, with different demands, and
\* the last call was on instance 1 while instance 2 keeps its own history.
C9_Witness ==
    /\ Len(calls_log[1]) >= 2 /\ Len(calls_log[2]) >= 1
    /\ LastActive /\ Val(last_call).ids = {1}
    /\ agents[1].demand_history # agents[2].demand_history
    /\ agents[2].demand_history = Observed(2)
    /\ Val(agents[1].avg_demand) # Val(agents[2].avg_demand)

\* C11: after every non-terminal call the newest element of last_orders is
\* the value the call returned, the clamped one; after the first non-terminal
\* call of an instance last_orders holds that value alone.
C11_ReturnedOrderTracked ==
    \A i \in Ids :
        (LastActive /\ Called(i)) =>
            /\ agents[i].last_orders # <<>>
            /\ Last(agents[i].last_orders) = Val(ret[i])
            /\ Len(calls_log[i]) = 1 => agents[i].last_orders = <<Val(ret[i])>>

\* C11 witness: the first non-terminal call computed more than the bound,
\* returned the bound and tracked the bound.
C11_Witness ==
    \E i \in Ids :
        /\ LastActive /\ Called(i) /\ Len(calls_log[i]) = 1
        /\ Val(locals[i]).adjusted > Val(ret[i])
        /\ Val(ret[i]) > 0
        /\ agents[i].last_orders = <<Val(ret[i])>>

\* The orders an instance had issued before its latest non-terminal call.
IssuedBefore(i) == Front(issued[i])

\* C12: the inventory position of a non-terminal call is inventory -
\* backorders + incoming_shipments plus the quantities returned by the up to
\* 4 non-terminal calls just before it: the order of the call itself is not
\* in the sum and orders older than 4 calls are not either.
C12_InventoryPosition ==
    \A i \in Ids :
        locals[i] # None =>
            LET o == Last(calls_log[i])
            IN  Val(locals[i]).inventory_position =
                    o[1] - o[2] + o[4] + sum(LastN(IssuedBefore(i), 4))

\* C12 witness: a call made after more than 4 earlier orders, the oldest of
\* which was positive and is no longer counted, while the order of the call
\* itself is positive too.
C12_Witness ==
    \E i \in Ids :
        /\ locals[i] # None
        /\ Len(IssuedBefore(i)) > 4
        /\ IssuedBefore(i)[1] > 0
        /\ Last(issued[i]) > 0
        /\ sum(LastN(IssuedBefore(i), 4)) > 0

\* C13: the first order of an instance is not blended; on every later
\* non-terminal call the base quantity B becomes 0.7 * B + 0.3 * (the latest
\* tracked order), before the position adjustment and the clamp.
C13_BullwhipSmoothing ==
    \A i \in Ids :
        locals[i] # None =>
            LET l == Val(locals[i])
            IN  IF IssuedBefore(i) = <<>>
                THEN l.smoothed = l.base
                ELSE l.smoothed = (((7 * Scale) \div 10) * l.base) \div Scale
                                  + (((3 * Scale) \div 10) * Last(IssuedBefore(i))) \div Scale

\* C13 witness: a later call blended a base quantity above the previous
\* order, so the blend lies strictly between the two.
C13_Witness ==
    \E i \in Ids :
        /\ locals[i] # None /\ IssuedBefore(i) # <<>>
        /\ Last(IssuedBefore(i)) < Val(locals[i]).smoothed
        /\ Val(locals[i]).smoothed < Val(locals[i]).base

\* The positions compared in C14.
Positions == { c[1] : c \in Configs }

\* C14: at position 0 the blended quantity goes to the clamp as it is; at
\* position p > 0 it is multiplied by 1 + 0.1 * p after the blending and
\* before the clamp to [0, bound], so for one blended quantity the unclamped
\* quantity does not decrease with p.
C14_UpstreamAmplification ==
    \A i \in Ids :
        locals[i] # None =>
            LET l == Val(locals[i])
                p == agents[i].position
            IN  /\ l.adjusted = IF p = 0 THEN l.smoothed
                                ELSE (l.smoothed * (Scale + p * (Scale \div 10))) \div Scale
                /\ Last(issued[i]) = Min(Max(l.adjusted, 0), agents[i].action_space_high)
                /\ NonDecreasing([q \in Positions |->
                        position_adjustment([agents[i] EXCEPT !.position = q], l.smoothed)])

\* C14 witness: an instance at position 3 raised a positive blended quantity
\* by 30%, and the result was still below the bound.
C14_Witness ==
    \E i \in Ids :
        /\ locals[i] # None /\ agents[i].position = 3
        /\ Val(locals[i]).smoothed > 0
        /\ Val(locals[i]).adjusted = (Val(locals[i]).smoothed * 13) \div 10
        /\ Val(locals[i]).adjusted < agents[i].action_space_high

\* The fields choose_action must not write.
Settings(a) ==
    <<a.position, a.lead_time, a.safety_stock_factor, a.target_inventory_days,
      a.smoothing_factor>>

SettingsAsBuilt ==
    \A i \in Ids :
        /\ agents[i].lead_time = 2 * Scale + agents[i].position * ((15 * Scale) \div 10)
        /\ agents[i].safety_stock_factor = (15 * Scale) \div 10
        /\ agents[i].target_inventory_days = 14
        /\ agents[i].smoothing_factor = (3 * Scale) \div 10

SettingsKept == \A i \in Ids : Settings(agents'[i]) = Settings(agents[i])

\* C15: lead_time is 2 + 1.5 * position, as derived at construction, and no
\* call, terminal or not, changes lead_time, position, safety_stock_factor,
\* target_inventory_days or smoothing_factor.
C15_SettingsFixed == []SettingsAsBuilt /\ [][SettingsKept]_vars

\* C15 witness: an instance at position 3 still has lead time 6.5 after
\* non-terminal and terminal calls.
C15_Witness ==
    \E i \in Ids :
        /\ agents[i].position = 3
        /\ agents[i].lead_time = (13 * Scale) \div 2
        /\ Len(calls_log[i]) >= 2 /\ terminal_seen[i]

BuffersInStep ==
    \A i \in Ids :
        /\ Len(agents[i].last_orders) = Min(Len(agents[i].demand_history), 4)
        /\ (agents[i].avg_demand = None) <=> (agents[i].demand_history = <<>>)

OneDemandOneOrder ==
    \A i \in Ids :
        (i \in Val(last_call').ids
         /\ ~Val(last_call').terminated /\ ~Val(last_call').truncated)
        => /\ agents'[i].demand_history =
                 LastN(Append(agents[i].demand_history, DemandOf(Val(last_call').observation)), 8)
           /\ agents'[i].last_orders =
                 LastN(Append(agents[i].last_orders, Val(ret'[i])), 4)

\* C16: in every reachable state last_orders has min(len(demand_history), 4)
\* entries and avg_demand is None exactly when demand_history is empty; a
\* non-terminal call appends exactly one demand and exactly one order.
C16_BuffersInStep == []BuffersInStep /\ [][OneDemandOneOrder]_vars

\* C16 witness: after more than 4 non-terminal calls, the latest returning
\* 0, the two buffers hold 4 orders and more than 4 demands.
C16_Witness ==
    \E i \in Ids :
        /\ LastActive /\ Called(i)
        /\ Val(ret[i]) = 0
        /\ Len(agents[i].demand_history) > 4
        /\ Len(agents[i].last_orders) = 4

\* ------------------------------------------------ the trading environment
\* The last call was a step() on an environment that had been reset.
LastStep == env_call.op = "step" /\ hasattr(env_call.before, "position_type")

\* C17: for every non-empty price series with default initial info, reset()
\* and every step() called before a step has reported done index closes only
\* at 0 <= t <= tmax - 1; such a step raises t by exactly 1 and returns, with
\* done true exactly when t has reached tmax - 1.
C17_ReadsWithinSeries ==
    /\ env_call.op = "reset" =>
          /\ env_call.reads \subseteq 0..(env.tmax - 1)
          /\ ~env_call.raised
    /\ (LastStep /\ ~env_call.done_before) =>
          /\ env_call.reads \subseteq 0..(env.tmax - 1)
          /\ env.t = env_call.before.t + 1
          /\ env_call.returned # None
          /\ Val(env_call.returned).done = (env.t = env.tmax - 1)

\* C18: after reset() with default initial info and any sequence of step()
\* calls with actions in {0, 1, 2}, position_type is in {0, 1, 2}, a
\* position_type of 1 comes with position_value 0.0, and a position_type of
\* 0 or 2 comes with position_value equal to the close price at the step on
\* which that position was opened.
C18_PositionMarkedAtOpening ==
    hasattr(env, "position_type") =>
        /\ env.position_type \in {0, 1, 2}
        /\ env.position_type = 1 => env.position_value = 0
        /\ env.position_type \in {0, 2} =>
              /\ env_run.opened_at # None
              /\ list_has(env.closes, Val(env_run.opened_at))
              /\ env.position_value = list_get(env.closes, Val(env_run.opened_at))

\* C19: a step() whose action equals the position_type held leaves
\* position_type and position_value unchanged and computes reward 0; the
\* reward is computed from prices only when the step closes or reverses an
\* open position, and is then the price difference in the position's favour;
\* opening a position from flat never computes a reward other than 0; a step
\* that returns returns the reward computed.
C19_RewardOnlyOnCloseOrReverse ==
    LastStep =>
        LET before == env_call.before
            action == env_call.action
        IN  /\ action = before.position_type =>
                  /\ env.position_type = before.position_type
                  /\ env.position_value = before.position_value
                  /\ env_call.reward = Some(0)
                  /\ ~env_call.priced
            /\ env_call.priced =>
                  /\ before.position_type \in {0, 2}
                  /\ action # before.position_type
                  /\ env_call.reward =
                        Some(IF before.position_type = 2
                             THEN list_get(before.closes, before.t) - before.position_value
                             ELSE before.position_value - list_get(before.closes, before.t))
            /\ (before.position_type = 1 /\ action \in {0, 2}) =>
                  /\ env_call.reward \in {None, Some(0)}
                  /\ ~env_call.priced
            /\ env_call.returned # None =>
                  Val(env_call.returned).reward = Val(env_call.reward)

\* A step that sold while short at a price other than the one the position
\* was opened at, and returned: reward 0, the position as it was.
C19_Witness ==
    /\ LastStep
    /\ env_call.action = 0
    /\ env_call.before.position_type = 0
    /\ env_call.before.position_value # 0
    /\ env_call.returned # None
    /\ Val(env_call.returned).reward = 0
    /\ env.position_value = env_call.before.position_value
    /\ env.position_value # list_get(env.closes, env_call.before.t)

====
